---- MODULE Spec2Model ----
(***************************************************************************)
(* A model of the PDF OCR and fuzzy hashing toolkit.                       *)
(*                                                                         *)
(*   ocr_all_pdfs_recursive.py : the OCR orchestrator (process_pdfs and    *)
(*       its worker tasks process_single_pdf over the ocr_status table).   *)
(*   fuzzy_hashing.py          : the page hashing pipeline (hash_pdf_pages *)
(*       over the page_hashes table, find_similar_pages and                *)
(*       save_similar_pages).                                              *)
(*                                                                         *)
(* The two scripts are separate programs; the variable program says which  *)
(* of them a behaviour runs.                                               *)
(***************************************************************************)
EXTENDS Integers, Sequences, FiniteSets, TLC

VARIABLES
    program,        \* which script runs: "ocr" or "fuzzy_hashing"
    \* ---- ocr_all_pdfs_recursive.py
    names,          \* the input tree: per document, the file name in its path
    ocr_status,     \* the ocr_status table: a set of rows, pdf_path the key
    phase,          \* process_pdfs: "idle" (not running), "first", "retry"
    run,            \* number of process_pdfs invocations started so far
    pdf_files,      \* process_pdfs' list of documents to process
    queue,          \* the executor's work queue (submission order)
    futures,        \* per document: the task of the current pass
    retry_files,    \* process_pdfs' list of documents whose task raised
    hist,           \* history: per document, the outcomes of ocr_pdf so far
    invRun,         \* history: per document, ocr_pdf calls in this invocation
    passOf,         \* history: per document, the passes that called ocr_pdf
    runStart,       \* history: the ocr_status table when process_pdfs began
    \* ---- fuzzy_hashing.py
    pages,          \* the input tree: per PDF file, the images of its pages
    page_hashes,    \* the page_hashes table: its committed rows, by rowid
    hpc,            \* main: "start", "hashing", "in_call", "found"
    hrun,           \* number of invocations of main started so far
    todo,           \* main: the documents of pdf_files not yet hashed
    conn,           \* hash_pdf_pages: its connection and local variables
    called,         \* history: documents passed to hash_pdf_pages in this run
    threshold,      \* find_similar_pages: similarity_threshold of the last call
    similar_pages,  \* main: the mapping returned by find_similar_pages
    missing,        \* source files absent when save_similar_pages ran
    export          \* save_similar_pages: the files written, and how it ended

ocrVars == <<names, ocr_status, phase, run, pdf_files, queue, futures,
             retry_files, hist, invRun, passOf, runStart>>

hashVars == <<pages, page_hashes, hpc, hrun, todo, conn, called, threshold,
              similar_pages, missing, export>>

(***************************************************************************)
(* Bounds of the model and constants of the program.                       *)
(***************************************************************************)
NumDocs == 2        \* PDF documents in the OCR input tree
MaxRuns == 3        \* invocations of process_pdfs (process restarts)
Jobs == 2           \* worker pool size (os.cpu_count())
RetryLimit == 3     \* main: retry_limit = 3

\* The documents of the input tree; document d lies in sub-directory d.
Docs == 1..NumDocs

\* The file names a document of the input tree can have.
FileNames == {"x.pdf", "y.pdf"}

\* os.path.basename(pdf_path)
basename(d) == names[d]

\* process_single_pdf: os.path.join(output_directory, basename(pdf_path))
output_pdf_path(d) == <<"output_directory", basename(d)>>

Statuses == {"pending", "completed", "retry", "failed"}

(***************************************************************************)
(* The ocr_status table.                                                   *)
(***************************************************************************)

\* read_ocr_status: the dict pdf_path -> (status, attempts) of the rows.
read_ocr_status(db) ==
    [p \in {r.pdf_path : r \in db} |->
        LET row == CHOOSE r \in db : r.pdf_path = p
        IN  <<row.status, row.attempts>>]

\* processed_files.get(pdf_path, ("pending", 0))
GetStatus(processed_files, pdf_path) ==
    IF pdf_path \in DOMAIN processed_files
    THEN processed_files[pdf_path]
    ELSE <<"pending", 0>>

\* update_ocr_status: INSERT OR REPLACE on the primary key pdf_path.
update_ocr_status(db, pdf_path, status, attempts) ==
    {r \in db : r.pdf_path # pdf_path}
        \cup {[pdf_path |-> pdf_path, status |-> status, attempts |-> attempts]}

StoredStatus(d) == GetStatus(read_ocr_status(ocr_status), d)[1]
StoredAttempts(d) == GetStatus(read_ocr_status(ocr_status), d)[2]

(***************************************************************************)
(* process_pdfs: discovery.                                                *)
(***************************************************************************)

\* process_pdfs: "if status == 'completed': continue"
SkipTypo(status) == status = "complete"
SkipDocument(status) == status = "completed"

\* The documents of `ds` in the order os.walk lists them.
RECURSIVE WalkOrder(_)
WalkOrder(ds) ==
    IF ds = {} THEN <<>>
    ELSE LET d == CHOOSE x \in ds : \A y \in ds : x <= y
         IN  <<d>> \o WalkOrder(ds \ {d})

\* process_pdfs: the list pdf_files built by the directory walk.
Discover(processed_files) ==
    WalkOrder({d \in Docs : ~SkipDocument(GetStatus(processed_files, d)[1])})

SeqToSet(s) == {s[i] : i \in 1..Len(s)}

NoTask == [pc |-> "none", attempts |-> 0]

\* executor.submit(process_single_pdf, ...) for every document of `files`.
Submit(files) ==
    [d \in Docs |-> IF d \in SeqToSet(files)
                    THEN [pc |-> "queued", attempts |-> 0]
                    ELSE NoTask]

AllCollected == \A d \in Docs : futures[d].pc \in {"none", "collected"}

\* Worker threads busy in process_single_pdf.
Running == {d \in Docs : futures[d].pc \in {"ocr", "ok", "err"}}

\* process_pdfs up to the submission of the first pass (or the early return).
ProcessPdfs ==
    /\ program = "ocr"
    /\ phase = "idle"
    /\ run < MaxRuns
    /\ LET files == Discover(read_ocr_status(ocr_status))
       IN  /\ run' = run + 1
           /\ pdf_files' = files
           /\ retry_files' = <<>>
           /\ invRun' = [d \in Docs |-> 0]
           /\ passOf' = [d \in Docs |-> {}]
           /\ runStart' = ocr_status
           /\ \/ /\ files = <<>>          \* "No PDF files found to process."
                 /\ UNCHANGED <<phase, queue, futures>>
              \/ /\ files # <<>>
                 /\ phase' = "first"
                 /\ queue' = files
                 /\ futures' = Submit(files)
    /\ UNCHANGED <<program, names, hashVars, ocr_status, hist>>

(***************************************************************************)
(* process_single_pdf, one worker task.                                    *)
(***************************************************************************)

\* A free worker takes the next task; the task reads the stored status.
StartTask ==
    /\ program = "ocr"
    /\ phase \in {"first", "retry"}
    /\ queue # <<>>
    /\ Cardinality(Running) < Jobs
    /\ LET d == Head(queue)
           st == GetStatus(read_ocr_status(ocr_status), d)
       IN  futures' = [futures EXCEPT ![d] = [pc |-> "ocr", attempts |-> st[2]]]
    /\ queue' = Tail(queue)
    /\ UNCHANGED <<program, names, hashVars, ocr_status, phase, run, pdf_files,
                   retry_files, hist, invRun, passOf, runStart>>

\* ocr_pdf: the external tool exits with 0 (ok) or nonzero (err).
OcrPdf(d) ==
    /\ program = "ocr"
    /\ futures[d].pc = "ocr"
    /\ \E outcome \in {"ok", "err"} :
          /\ futures' = [futures EXCEPT ![d].pc = outcome]
          /\ hist' = [hist EXCEPT ![d] = Append(@, outcome)]
    /\ invRun' = [invRun EXCEPT ![d] = @ + 1]
    /\ passOf' = [passOf EXCEPT ![d] = @ \cup {phase}]
    /\ UNCHANGED <<program, names, hashVars,
                   ocr_status, phase, run, pdf_files, queue,
                   retry_files, runStart>>

\* process_single_pdf: "if attempts >= retry_limit"
GivesUpLate(attempts) == attempts > RetryLimit
GivesUp(attempts) == attempts >= RetryLimit

\* process_single_pdf: the attempts written with status "completed".
CompletedResets(attempts) == 0
CompletedAttempts(attempts) == attempts

\* process_single_pdf: "attempts += 1"
NotIncremented(attempts) == attempts
Incremented(attempts) == attempts + 1

\* The rest of process_single_pdf after ocr_pdf: the status is written and
\* the task returns or re-raises.
UpdateStatus(d) ==
    /\ program = "ocr"
    /\ \/ /\ futures[d].pc = "ok"
          /\ ocr_status' = update_ocr_status(ocr_status, d, "completed",
                                CompletedAttempts(futures[d].attempts))
          /\ futures' = [futures EXCEPT ![d].pc = "returned"]
       \/ /\ futures[d].pc = "err"
          /\ LET attempts == Incremented(futures[d].attempts)
             IN  IF GivesUp(attempts)
                 THEN /\ ocr_status' =
                            update_ocr_status(ocr_status, d, "failed", attempts)
                      /\ futures' = [futures EXCEPT ![d] =
                            [pc |-> "returned", attempts |-> attempts]]
                 ELSE /\ ocr_status' =
                            update_ocr_status(ocr_status, d, "retry", attempts)
                      /\ futures' = [futures EXCEPT ![d] =
                            [pc |-> "raised", attempts |-> attempts]]
    /\ UNCHANGED <<program, names, hashVars,
                   phase, run, pdf_files, queue, retry_files,
                   hist, invRun, passOf, runStart>>

(***************************************************************************)
(* process_pdfs: collecting the futures and the retry pass.                *)
(***************************************************************************)

\* One iteration of "for future in as_completed(futures)".
Collect(d) ==
    /\ program = "ocr"
    /\ \/ /\ futures[d].pc = "returned"
          /\ UNCHANGED retry_files
       \/ /\ futures[d].pc = "raised"
          /\ retry_files' = IF phase = "first"
                            THEN Append(retry_files, d)
                            ELSE retry_files
    /\ futures' = [futures EXCEPT ![d].pc = "collected"]
    /\ UNCHANGED <<program, names, hashVars,
                   ocr_status, phase, run, pdf_files, queue,
                   hist, invRun, passOf, runStart>>

\* process_pdfs: the documents submitted to the retry pass.
RetryEverything(files, failed) == files
RetryList(files, failed) == failed

\* The first pass is over: "if retry_files:" submits the retry pass.
RetryFailedFiles ==
    /\ program = "ocr"
    /\ phase = "first"
    /\ AllCollected
    /\ LET again == RetryList(pdf_files, retry_files)
       IN  \/ /\ again = <<>>
              /\ phase' = "idle"
              /\ queue' = <<>>
              /\ futures' = [d \in Docs |-> NoTask]
           \/ /\ again # <<>>
              /\ phase' = "retry"
              /\ queue' = again
              /\ futures' = Submit(again)
    /\ UNCHANGED <<program, names, hashVars,
                   ocr_status, run, pdf_files, retry_files,
                   hist, invRun, passOf, runStart>>

\* The retry pass is over: process_pdfs returns.
Return ==
    /\ program = "ocr"
    /\ phase = "retry"
    /\ AllCollected
    /\ phase' = "idle"
    /\ queue' = <<>>
    /\ futures' = [d \in Docs |-> NoTask]
    /\ UNCHANGED <<program, names, hashVars,
                   ocr_status, run, pdf_files, retry_files,
                   hist, invRun, passOf, runStart>>

InitOcr(trees) ==
    /\ names \in trees
    /\ ocr_status = {}
    /\ phase = "idle"
    /\ run = 0
    /\ pdf_files = <<>>
    /\ queue = <<>>
    /\ futures = [d \in Docs |-> NoTask]
    /\ retry_files = <<>>
    /\ hist = [d \in Docs |-> <<>>]
    /\ invRun = [d \in Docs |-> 0]
    /\ passOf = [d \in Docs |-> {}]
    /\ runStart = {}

NextOcr ==
    \/ ProcessPdfs
    \/ StartTask
    \/ \E d \in Docs : OcrPdf(d)
    \/ \E d \in Docs : UpdateStatus(d)
    \/ \E d \in Docs : Collect(d)
    \/ RetryFailedFiles
    \/ Return

(***************************************************************************)
(* fuzzy_hashing.py                                                        *)
(***************************************************************************)
MaxTotalPages == 3  \* pages in the input tree, over all its documents
MaxHashRuns == 2    \* invocations of main over the same page_hashes.db

\* The PDF files of the input tree, in the order os.walk finds them.
PdfTree == <<"a.pdf", "b.pdf">>
PdfFiles == SeqToSet(PdfTree)

\* The distinct page images (the bytes of a rasterized page).
Images == {1, 2, 3}

\* The similarity thresholds find_similar_pages is called with: its default,
\* the strict value, the boundary and the first value out of range.
Thresholds == {70, 95, 100, 101}

RECURSIVE SumLen(_, _)
SumLen(f, S) ==
    IF S = {} THEN 0
    ELSE LET x == CHOOSE y \in S : TRUE
         IN  Len(f[x]) + SumLen(f, S \ {x})

PageSeqs == UNION {[1..n -> Images] : n \in 1..MaxTotalPages}

\* calculate_md5: a digest of the whole file's bytes.
calculate_md5(bytes) == <<"md5", bytes>>

\* pdfinfo_from_path(pdf_path)["Pages"]
total_pages(pdf_path) == Len(pages[pdf_path])

\* convert_from_path(pdf_path, first_page=n, last_page=n)[0], saved as PNG.
page_image(pdf_path, n) == pages[pdf_path][n]

\* ssdeep.hash: byte-identical images have the same digest.
ssdeep_hash(image) == image * 5

\* ssdeep.compare: 100 for equal digests, falling with their distance.
ssdeep_compare(h1, h2) ==
    LET dist == IF h1 >= h2 THEN h1 - h2 ELSE h2 - h1
    IN  IF 5 * dist >= 100 THEN 0 ELSE 100 - 5 * dist

NoConn == [open |-> FALSE, pdf_path |-> "", original_md5 |-> <<>>,
           total_pages |-> 0, page_number |-> 0, txn |-> <<>>,
           result |-> "none"]

NoExport == [files |-> {}, result |-> "none"]

\* main up to the hashing loop: the directory walk lists every PDF.
MainStart ==
    /\ program = "fuzzy_hashing"
    /\ hpc = "start"
    /\ hrun < MaxHashRuns
    /\ hrun' = hrun + 1
    /\ todo' = PdfTree
    /\ hpc' = "hashing"
    /\ called' = {}
    /\ conn' = NoConn
    /\ threshold' = 0
    /\ similar_pages' = <<>>
    /\ missing' = {}
    /\ export' = NoExport
    /\ UNCHANGED <<program, ocrVars, pages, page_hashes>>

\* main's loop after hash_pdf_pages met an exception: the except clause
\* caught it, so the loop goes on with the documents that are left.
AbortBatch(rest) == <<>>
AfterError(rest) == Tail(rest)

\* hash_pdf_pages: the except and finally clauses. The exception is caught,
\* the connection is closed without commit (the inserts are rolled back).
\* conn.close() without conn.commit(): the rows inserted through this
\* connection are not stored.
CommitsPartial(rows, txn) == rows \o txn
ClosedUncommitted(rows, txn) == rows

HashFailed ==
    /\ conn' = [conn EXCEPT !.open = FALSE, !.txn = <<>>, !.result = "error"]
    /\ todo' = AfterError(todo)
    /\ hpc' = "hashing"
    /\ page_hashes' = ClosedUncommitted(page_hashes, conn.txn)

\* hash_pdf_pages up to the page loop: connect, checksum, page count.
HashBegin ==
    /\ program = "fuzzy_hashing"
    /\ hpc = "hashing"
    /\ todo # <<>>
    /\ called' = called \cup {Head(todo)}
    /\ LET pdf_path == Head(todo)
           opened == [open |-> TRUE, pdf_path |-> pdf_path,
                      original_md5 |-> <<>>, total_pages |-> 0,
                      page_number |-> 0, txn |-> <<>>, result |-> "none"]
       IN  \/ /\ conn' = [opened EXCEPT
                            !.original_md5 = calculate_md5(pages[pdf_path]),
                            !.total_pages = total_pages(pdf_path),
                            !.page_number = 1]
              /\ hpc' = "in_call"
              /\ UNCHANGED <<todo, page_hashes>>
           \/ \* calculate_md5 or pdfinfo_from_path raises
              /\ conn' = [opened EXCEPT !.result = "error", !.open = FALSE]
              /\ todo' = AfterError(todo)
              /\ hpc' = "hashing"
              /\ UNCHANGED page_hashes
    /\ UNCHANGED <<program, ocrVars, pages, hrun, threshold, similar_pages,
                   missing, export>>

\* hash_pdf_pages: the checksum stored with page n.
RowChecksum(md5, pdf_path, n) == md5

\* hash_pdf_pages: "for page_number in range(1, total_pages + 1)"
RangeStopsEarly(n, total) == n < total
InRange(n, total) == n <= total

\* hash_pdf_pages: one iteration of the page loop.
HashPage ==
    /\ program = "fuzzy_hashing"
    /\ hpc = "in_call"
    /\ InRange(conn.page_number, conn.total_pages)
    /\ \/ /\ LET n == conn.page_number
                 row == [pdf_path |-> conn.pdf_path,
                         page_number |-> n,
                         page_hash |->
                            ssdeep_hash(page_image(conn.pdf_path, n)),
                         original_md5 |->
                            RowChecksum(conn.original_md5, conn.pdf_path, n)]
             IN  conn' = [conn EXCEPT !.txn = Append(@, row),
                                      !.page_number = n + 1]
          /\ UNCHANGED <<todo, hpc, page_hashes>>
       \/ \* rasterization, the temporary file, hashing or the insert raises
          HashFailed
    /\ UNCHANGED <<program, ocrVars, pages, hrun, called, threshold,
                   similar_pages, missing, export>>

\* hash_pdf_pages: conn.commit() after the loop, then the finally clause.
HashCommit ==
    /\ program = "fuzzy_hashing"
    /\ hpc = "in_call"
    /\ ~InRange(conn.page_number, conn.total_pages)
    /\ page_hashes' = page_hashes \o conn.txn
    /\ conn' = [conn EXCEPT !.open = FALSE, !.txn = <<>>, !.result = "ok"]
    /\ todo' = Tail(todo)
    /\ hpc' = "hashing"
    /\ UNCHANGED <<program, ocrVars, pages, hrun, called, threshold,
                   similar_pages, missing, export>>

(***************************************************************************)
(* find_similar_pages                                                      *)
(***************************************************************************)

\* SELECT DISTINCT page_hash FROM page_hashes: each stored hash once, in the
\* order of its first row (the table is scanned by rowid).
RECURSIVE DistinctHashes(_)
DistinctHashes(rows) ==
    IF rows = <<>> THEN <<>>
    ELSE LET front == DistinctHashes(SubSeq(rows, 1, Len(rows) - 1))
             h == rows[Len(rows)].page_hash
         IN  IF h \in SeqToSet(front) THEN front ELSE Append(front, h)

\* SELECT pdf_path, page_number, original_md5 ... WHERE page_hash = h
RECURSIVE PagesWithHash(_, _)
PagesWithHash(rows, h) ==
    IF rows = <<>> THEN <<>>
    ELSE LET r == Head(rows)
             rest == PagesWithHash(Tail(rows), h)
         IN  IF r.page_hash = h
             THEN <<<<r.pdf_path, r.page_number, r.original_md5>>>> \o rest
             ELSE rest

\* find_similar_pages: "if similarity >= similarity_threshold"
IsSimilar(similarity, similarity_threshold) ==
    similarity >= similarity_threshold

\* find_similar_pages: the two extend calls of one similar pair.
ExtendOnlyJ(pages_i, pages_j) == pages_j
Extended(pages_i, pages_j) == pages_i \o pages_j

\* The inner loop over j for one i: what is appended to similar_pages[h_i].
RECURSIVE InnerLoop(_, _, _, _, _)
InnerLoop(rows, hashes, i, j, T) ==
    IF j > Len(hashes) THEN <<>>
    ELSE (IF IsSimilar(ssdeep_compare(hashes[i], hashes[j]), T)
          THEN Extended(PagesWithHash(rows, hashes[i]),
                        PagesWithHash(rows, hashes[j]))
          ELSE <<>>)
         \o InnerLoop(rows, hashes, i, j + 1, T)

\* The outer loop over i: the entries of the defaultdict in insertion order.
RECURSIVE OuterLoop(_, _, _, _)
OuterLoop(rows, hashes, i, T) ==
    IF i > Len(hashes) THEN <<>>
    ELSE LET found == InnerLoop(rows, hashes, i, i + 1, T)
         IN  (IF found = <<>> THEN <<>>
              ELSE <<[key |-> hashes[i], pages |-> found]>>)
             \o OuterLoop(rows, hashes, i + 1, T)

find_similar_pages(rows, similarity_threshold) ==
    OuterLoop(rows, DistinctHashes(rows), 1, similarity_threshold)

\* main: find_similar_pages after the hashing loop, and "if similar_pages:".
FindSimilarPages ==
    /\ program = "fuzzy_hashing"
    /\ hpc = "hashing"
    /\ todo = <<>>
    /\ \E T \in Thresholds :
          /\ threshold' = T
          /\ similar_pages' = find_similar_pages(page_hashes, T)
    /\ \/ /\ similar_pages' = <<>>          \* "No similar pages found."
          /\ hpc' = "start"
       \/ /\ similar_pages' # <<>>
          /\ hpc' = "found"
    /\ UNCHANGED <<program, ocrVars, pages, page_hashes, hrun, todo, conn,
                   called, missing, export>>

(***************************************************************************)
(* save_similar_pages                                                      *)
(***************************************************************************)

\* The inner loop over the members of one cluster: fitz.open(pdf_path)
\* raises when the source file is absent.
RECURSIVE CollectPages(_, _)
CollectPages(members, absent) ==
    IF members = <<>> THEN [raised |-> FALSE, doc |-> <<>>]
    ELSE LET m == Head(members)
         IN  IF m[1] \in absent THEN [raised |-> TRUE, doc |-> <<>>]
             ELSE LET rest == CollectPages(Tail(members), absent)
                  IN  [rest EXCEPT !.doc = <<<<m[1], m[2]>>>> \o @]

\* The loop over similar_pages.items(): the files saved, until an exception
\* leaves the function.
RECURSIVE SaveLoop(_, _, _)
SaveLoop(clusters, absent, saved) ==
    IF clusters = <<>> THEN [files |-> saved, result |-> "done"]
    ELSE LET c == Head(clusters)
         IN  IF Len(c.pages) > 1
             THEN LET got == CollectPages(c.pages, absent)
                  IN  IF got.raised
                      THEN [files |-> saved, result |-> "error"]
                      ELSE SaveLoop(Tail(clusters), absent,
                            {f \in saved : f.name # c.key}
                                \cup {[name |-> c.key, pages |-> got.doc]})
             ELSE SaveLoop(Tail(clusters), absent, saved)

save_similar_pages(clusters, absent) == SaveLoop(clusters, absent, {})

\* main: save_similar_pages(similar_pages, output_directory). Source files
\* may have been moved or deleted since they were hashed.
SaveSimilarPages ==
    /\ program = "fuzzy_hashing"
    /\ hpc = "found"
    /\ \E absent \in SUBSET PdfFiles :
          /\ missing' = absent
          /\ export' = save_similar_pages(similar_pages, absent)
    /\ hpc' = "start"
    /\ UNCHANGED <<program, ocrVars, pages, page_hashes, hrun, todo, conn,
                   called, threshold, similar_pages>>

\* The input trees: every PDF file has at least one page.
InputTrees == {f \in [PdfFiles -> PageSeqs] :
                    SumLen(f, PdfFiles) <= MaxTotalPages}

InitHash(trees) ==
    /\ pages \in trees
    /\ page_hashes = <<>>
    /\ hpc = "start"
    /\ hrun = 0
    /\ todo = <<>>
    /\ conn = NoConn
    /\ called = {}
    /\ threshold = 0
    /\ similar_pages = <<>>
    /\ missing = {}
    /\ export = NoExport

NextHash ==
    \/ MainStart
    \/ HashBegin
    \/ HashPage
    \/ HashCommit
    \/ FindSimilarPages
    \/ SaveSimilarPages

vars == <<program, ocrVars, hashVars>>

\* One of the two scripts runs; the other one's state stays as it starts.
Init ==
    \/ /\ program = "ocr"
       /\ InitOcr([Docs -> FileNames])
       /\ InitHash({[f \in PdfFiles |-> <<1>>]})
    \/ /\ program = "fuzzy_hashing"
       /\ InitOcr({[d \in Docs |-> "x.pdf"]})
       /\ InitHash(InputTrees)

Next == NextOcr \/ NextHash

Spec == Init /\ [][Next]_vars

(***************************************************************************)
(* Properties.                                                             *)
(***************************************************************************)

\* The stored row i as find_similar_pages selects it.
Rec(i) == <<page_hashes[i].pdf_path, page_hashes[i].page_number,
            page_hashes[i].original_md5>>

RowImage(i) == page_image(page_hashes[i].pdf_path, page_hashes[i].page_number)

\* find_similar_pages has returned in this run of main.
Clustered == program = "fuzzy_hashing" /\ threshold # 0

\* main has returned (after the export, or with "No similar pages found").
MainReturned == program = "fuzzy_hashing" /\ hpc = "start" /\ hrun > 0

\* C1: two stored page records with byte-identical page images are put in
\* one cluster by find_similar_pages for every threshold T <= 100, and the
\* export writes a file that holds both pages.
C1_IdenticalPagesClustered ==
    (Clustered /\ threshold <= 100) =>
        \A i, j \in 1..Len(page_hashes) :
            (i < j /\ RowImage(i) = RowImage(j)) =>
                /\ \E k \in 1..Len(similar_pages) :
                        {Rec(i), Rec(j)}
                            \subseteq SeqToSet(similar_pages[k].pages)
                /\ (MainReturned /\ missing = {}) =>
                        \E f \in export.files :
                            {<<Rec(i)[1], Rec(i)[2]>>, <<Rec(j)[1], Rec(j)[2]>>}
                                \subseteq SeqToSet(f.pages)

Fails(n) == [i \in 1..n |-> "err"]

\* The task of d is not between ocr_pdf and the write of its status.
Settled(d) == futures[d].pc \notin {"ok", "err"}

\* C2: a document whose OCR invocations fail exactly retry_limit - 1 times
\* and then succeed once is stored as 'completed' with attempts =
\* retry_limit - 1; a document whose OCR invocations fail retry_limit times
\* is stored as 'failed'.
C2_RetryOutcome ==
    program = "ocr" =>
        \A d \in Docs :
            Settled(d) =>
                /\ hist[d] = Append(Fails(RetryLimit - 1), "ok") =>
                        /\ StoredStatus(d) = "completed"
                        /\ StoredAttempts(d) = RetryLimit - 1
                /\ hist[d] = Fails(RetryLimit) => StoredStatus(d) = "failed"

C2_Witness ==
    /\ program = "ocr"
    /\ Settled(1) /\ Settled(2)
    /\ hist[1] = Append(Fails(RetryLimit - 1), "ok")
    /\ hist[2] = Fails(RetryLimit)

\* C3: once the stored status of a document is 'completed', no step of any
\* pass or later invocation of process_pdfs queues a task for it or invokes
\* the OCR tool on it.
C3_CompletedNeverReOcrd ==
    [][\A d \in Docs :
          StoredStatus(d) = "completed" =>
              /\ hist'[d] = hist[d]
              /\ futures'[d].pc \notin {"queued", "ocr"}]_vars

C3_Witness ==
    /\ program = "ocr"
    /\ run = 2
    /\ hist[1] = <<"ok">>
    /\ StoredStatus(1) = "completed"
    /\ futures[1].pc = "none"
    /\ futures[2].pc = "ocr"
    /\ hist[2] = Fails(2)

\* C4: once the stored status of a document is 'completed' or 'failed', no
\* later step changes its stored status or its stored attempts.
C4_TerminalStates ==
    [][\A d \in Docs :
          StoredStatus(d) \in {"completed", "failed"} =>
              /\ StoredStatus(d)' = StoredStatus(d)
              /\ StoredAttempts(d)' = StoredAttempts(d)]_vars

\* Every page of every document of the input tree has a stored record.
FullyHashed ==
    \A d \in PdfFiles : \A n \in 1..total_pages(d) :
        \E i \in 1..Len(page_hashes) :
            /\ page_hashes[i].pdf_path = d
            /\ page_hashes[i].page_number = n

PageNumberUnique(rows) ==
    \A i, j \in 1..Len(rows) :
        (rows[i].pdf_path = rows[j].pdf_path
            /\ rows[i].page_number = rows[j].page_number) => i = j

\* C5: once the unchanged document set is fully hashed, running the hashing
\* phase again over the same page_hashes.db adds no records, and page_number
\* stays unique within each pdf_path.
C5_RehashAddsNothing ==
    [][(program = "fuzzy_hashing" /\ FullyHashed) =>
            /\ page_hashes' = page_hashes
            /\ PageNumberUnique(page_hashes')]_vars

\* The members of a cluster whose source document is present.
RECURSIVE Present(_, _)
Present(members, absent) ==
    IF members = <<>> THEN <<>>
    ELSE (IF Head(members)[1] \in absent THEN <<>>
          ELSE <<<<Head(members)[1], Head(members)[2]>>>>)
         \o Present(Tail(members), absent)

\* C6: save_similar_pages skips a member whose source document is missing
\* and goes on: the export is never aborted, and every cluster with at least
\* 2 records is exported with all its members whose source is present.
C6_ExportSkipsMissing ==
    (MainReturned /\ similar_pages # <<>>) =>
        /\ export.result = "done"
        /\ \A k \in 1..Len(similar_pages) :
              Len(similar_pages[k].pages) >= 2 =>
                  \E f \in export.files :
                      /\ f.name = similar_pages[k].key
                      /\ f.pages = Present(similar_pages[k].pages, missing)

\* C7: one successful call of hash_pdf_pages on a document with N pages adds
\* exactly N records for it, with page_number 1..N in increasing order and
\* the same checksum in all of them; nothing else adds records.
C7_HashAddsNPages ==
    [][/\ page_hashes' # page_hashes => (conn.open /\ conn'.result = "ok")
       /\ (conn.open /\ conn'.result = "ok") =>
            LET d == conn.pdf_path
                N == total_pages(d)
                old == Len(page_hashes)
            IN  /\ Len(page_hashes') = old + N
                /\ SubSeq(page_hashes', 1, old) = page_hashes
                /\ \A n \in 1..N :
                      /\ page_hashes'[old + n].pdf_path = d
                      /\ page_hashes'[old + n].page_number = n
                      /\ page_hashes'[old + n].original_md5 =
                            page_hashes'[old + 1].original_md5]_vars

C7_Witness ==
    /\ program = "fuzzy_hashing"
    /\ conn.result = "ok"
    /\ conn.pdf_path = "b.pdf"
    /\ total_pages("b.pdf") >= 2
    /\ Len(page_hashes) = total_pages("a.pdf") + total_pages("b.pdf")

\* C8: within one invocation of process_pdfs the OCR tool is invoked on a
\* document at most twice: at most once in the first pass, and once more in
\* the retry pass only when its first-pass task raised; the retry pass starts
\* after every first-pass task has finished and no pass follows it.
C8_AtMostTwoPasses ==
    program = "ocr" =>
        /\ \A d \in Docs :
              /\ invRun[d] <= 2
              /\ invRun[d] = Cardinality(passOf[d])
              /\ "retry" \in passOf[d] =>
                    /\ "first" \in passOf[d]
                    /\ d \in SeqToSet(retry_files)
              /\ futures[d].pc # "none" /\ phase = "retry" =>
                    d \in SeqToSet(retry_files)
        /\ phase = "retry" =>
              \A d \in SeqToSet(pdf_files) : "first" \in passOf[d]

C8_Witness ==
    /\ program = "ocr"
    /\ phase = "idle"
    /\ invRun[1] = 2
    /\ StoredStatus(1) = "retry"
    /\ StoredAttempts(1) < RetryLimit
    /\ invRun[2] = 1

\* C9: a failure on one document never aborts the batch: when the hashing
\* loop of main is over every discovered PDF was passed to hash_pdf_pages,
\* and when process_pdfs is over the OCR tool was invoked at least once on
\* every document that was not 'completed' when it began.
C9_BatchNotAborted ==
    /\ (program = "fuzzy_hashing" /\ (Clustered \/ MainReturned
                                      \/ (hpc = "hashing" /\ todo = <<>>)))
            => called = PdfFiles
    /\ (program = "ocr" /\ phase = "idle" /\ run > 0) =>
            \A d \in Docs :
                GetStatus(read_ocr_status(runStart), d)[1] # "completed"
                    => invRun[d] >= 1

C9_Witness ==
    /\ program = "ocr"
    /\ phase = "idle"
    /\ run = 1
    /\ hist[1] = Fails(2)
    /\ hist[2] = <<"ok">>
    /\ invRun[2] = 1

\* C10: the stored attempts of a document never decrease, whatever the
\* interleaving of worker tasks, passes and invocations.
C10_AttemptsMonotone ==
    [][\A d \in Docs : StoredAttempts(d)' >= StoredAttempts(d)]_vars

C10_Witness ==
    /\ program = "ocr"
    /\ StoredStatus(1) = "completed"
    /\ StoredAttempts(1) = RetryLimit - 1
    /\ StoredStatus(2) = "failed"
    /\ StoredAttempts(2) > RetryLimit

\* The number of times x occurs in the sequence s.
Count(s, x) == Cardinality({n \in 1..Len(s) : s[n] = x})

\* The position of the hash h among the distinct stored hashes.
Pos(h) ==
    CHOOSE n \in 1..Len(DistinctHashes(page_hashes)) :
        DistinctHashes(page_hashes)[n] = h

Similar(h1, h2) == ssdeep_compare(h1, h2) >= threshold

\* The records of h and of every later distinct hash similar to h, each
\* stored row once.
RECURSIVE UnionFrom(_, _)
UnionFrom(h, j) ==
    LET hashes == DistinctHashes(page_hashes)
    IN  IF j > Len(hashes) THEN <<>>
        ELSE (IF Similar(h, hashes[j])
              THEN PagesWithHash(page_hashes, hashes[j])
              ELSE <<>>)
             \o UnionFrom(h, j + 1)

ClusterUnion(h) == PagesWithHash(page_hashes, h) \o UnionFrom(h, Pos(h) + 1)

\* C11: the cluster of every key h_i of the result of find_similar_pages is
\* the union of the page records of h_i and of every later distinct hash
\* similar to h_i, each record once, also when h_i is similar to two or more
\* later hashes.
C11_ClusterIsUnion ==
    Clustered =>
        \A k \in 1..Len(similar_pages) :
            LET c == similar_pages[k]
                u == ClusterUnion(c.key)
            IN  \A rec \in SeqToSet(c.pages) \cup SeqToSet(u) :
                    Count(c.pages, rec) = Count(u, rec)

HashSet == SeqToSet(DistinctHashes(page_hashes))

\* h is similar to ha and to hb, which are not similar to each other.
Bridge(h, ha, hb) ==
    /\ h # ha /\ h # hb /\ ha # hb
    /\ Similar(h, ha) /\ Similar(h, hb) /\ ~Similar(ha, hb)

RecordsOf(hs) ==
    UNION {SeqToSet(PagesWithHash(page_hashes, x)) : x \in hs}

\* C12 as claimed: a hash similar to two hashes that are not similar to each
\* other ends in one bucket with both, wherever it stands in the order of
\* the distinct hashes.
C12_BridgeAnyPosition ==
    Clustered =>
        \A h, ha, hb \in HashSet :
            Bridge(h, ha, hb) =>
                \E k \in 1..Len(similar_pages) :
                    RecordsOf({h, ha, hb})
                        \subseteq SeqToSet(similar_pages[k].pages)

\* C12 as amended: when the hash stands before both others in the order of
\* the distinct hashes, the bucket keyed by it holds the records of all
\* three.
C12_BridgeFirst ==
    Clustered =>
        \A h, ha, hb \in HashSet :
            (Bridge(h, ha, hb) /\ Pos(h) < Pos(ha) /\ Pos(h) < Pos(hb)) =>
                \E k \in 1..Len(similar_pages) :
                    /\ similar_pages[k].key = h
                    /\ RecordsOf({h, ha, hb})
                            \subseteq SeqToSet(similar_pages[k].pages)

C12_Witness ==
    /\ Clustered
    /\ threshold = 70
    /\ DistinctHashes(page_hashes) = <<10, 15, 5>>
    /\ Len(similar_pages) = 1

\* The step in which the task of d, whose OCR invocation failed, writes the
\* status.
FailureWritten(d) ==
    futures[d].pc = "err" /\ futures'[d].pc \in {"returned", "raised"}

\* C13: the write that follows a failed OCR invocation raises the stored
\* attempts of the document by exactly one and stores 'failed' exactly when
\* the new attempts >= retry_limit, 'retry' otherwise; so a stored 'retry'
\* has 1 <= attempts < retry_limit and a stored 'failed' has attempts >=
\* retry_limit.
C13_FailureBookkeeping ==
    [][\A d \in Docs :
          /\ FailureWritten(d) =>
                /\ StoredAttempts(d)' = StoredAttempts(d) + 1
                /\ StoredStatus(d)' =
                        IF StoredAttempts(d)' >= RetryLimit
                        THEN "failed" ELSE "retry"
          /\ StoredStatus(d)' = "retry" =>
                (1 <= StoredAttempts(d)' /\ StoredAttempts(d)' < RetryLimit)
          /\ StoredStatus(d)' = "failed" =>
                StoredAttempts(d)' >= RetryLimit]_vars

C13_Witness ==
    /\ program = "ocr"
    /\ StoredStatus(1) = "retry"
    /\ StoredAttempts(1) = RetryLimit - 1
    /\ hist[1] = Fails(RetryLimit - 1)
    /\ StoredStatus(2) = "failed"
    /\ StoredAttempts(2) = RetryLimit
    /\ futures[2].pc = "returned"

\* The stored hash of the page a cluster member names.
MemberHash(m) ==
    LET i == CHOOSE n \in 1..Len(page_hashes) :
                /\ page_hashes[n].pdf_path = m[1]
                /\ page_hashes[n].page_number = m[2]
    IN  page_hashes[i].page_hash

\* Every cluster holds at least 2 records of at least 2 distinct hashes, each
\* the key or similar to the key.
ClustersWellFormed ==
    \A k \in 1..Len(similar_pages) :
        LET c == similar_pages[k]
            members == SeqToSet(c.pages)
        IN  /\ Len(c.pages) >= 2
            /\ Cardinality({MemberHash(m) : m \in members}) >= 2
            /\ \A m \in members :
                  \/ MemberHash(m) = c.key
                  \/ Similar(MemberHash(m), c.key)

\* C14: every cluster returned by find_similar_pages holds at least 2 page
\* records of at least 2 distinct hashes, each member's hash being the key or
\* similar to the key; so every file save_similar_pages writes holds at
\* least 2 pages and no key of the mapping is left unexported.
C14_ClustersExported ==
    Clustered =>
        /\ ClustersWellFormed
        /\ (MainReturned /\ similar_pages # <<>>) =>
              /\ \A f \in export.files : Len(f.pages) >= 2
              /\ \A k \in 1..Len(similar_pages) :
                    \E f \in export.files : f.name = similar_pages[k].key

\* C15: in one pass no two worker tasks that run at the same time write the
\* same output file: distinct documents of the input tree, also ones with
\* the same file name in different sub-directories, have distinct output
\* paths.
C15_DistinctOutputPaths ==
    program = "ocr" =>
        \A d1, d2 \in Docs :
            (d1 # d2 /\ futures[d1].pc = "ocr" /\ futures[d2].pc = "ocr")
                => output_pdf_path(d1) # output_pdf_path(d2)

\* The step that ends a call of hash_pdf_pages with an exception.
CallFailed == conn'.result = "error" /\ conn' # conn

\* C16: hash_pdf_pages is all-or-nothing per call: when the checksum, the
\* page count or any page k fails, none of the records inserted by the call
\* for pages 1..k-1 is stored and the stored records of other documents are
\* unchanged; the store handle is closed on every exit path.
C16_AllOrNothing ==
    [][/\ CallFailed => (page_hashes' = page_hashes /\ ~conn'.open)
       /\ (conn.open /\ ~conn'.open) =>
            \/ conn'.result = "error" /\ page_hashes' = page_hashes
            \/ conn'.result = "ok"
                /\ Len(page_hashes') = Len(page_hashes) + conn.total_pages
       /\ hpc' # "in_call" => ~conn'.open]_vars

C16_Witness ==
    /\ program = "fuzzy_hashing"
    /\ conn.result = "error"
    /\ conn.pdf_path = "b.pdf"
    /\ conn.page_number = 2
    /\ total_pages("b.pdf") = 2
    /\ Len(page_hashes) = total_pages("a.pdf")
====
